---- MODULE Spec2Model ----
(***************************************************************************)
(* CAA based ACME server discovery (certbot/_internal/auto_server.py).     *)
(*                                                                         *)
(* Byte strings are sequences of symbols.  The symbols ";", "=" and " "    *)
(* are the bytes the parser looks at; "-", "+" and the digits are the      *)
(* bytes int() looks at; every other symbol ("priority", "ca1", ...)       *)
(* stands for a run of letters that no step of the code ever splits.       *)
(* An optional value (None or a byte string) is <<>> for None and <<b>>    *)
(* for the byte string b, so that None and b"" stay distinct.              *)
(*                                                                         *)
(* A DNS name is the sequence of its labels, leftmost first, ending with   *)
(* the empty root label, as dns.name.Name stores it.                       *)
(***************************************************************************)
EXTENDS Integers, Sequences, FiniteSets, TLC

\* ------------------------------------------------------------------ bounds
MaxDomains == 2
MaxRecords == 2
MaxIssuerLen == 2
MaxSegments == 2
MaxLabels == 2

\* ------------------------------------------------------- python primitives
None == <<>>
Some(b) == <<b>>

RECURSIVE IndexOf(_, _, _)
\* bytes.find: the first position >= i of s holding sep, 0 when there is none
IndexOf(s, sep, i) ==
  IF i > Len(s) THEN 0
  ELSE IF s[i] = sep THEN i
  ELSE IndexOf(s, sep, i + 1)

RECURSIVE Split(_, _)
\* bytes.split(sep): every piece between separators, empty pieces included
Split(s, sep) ==
  LET k == IndexOf(s, sep, 1)
  IN IF k = 0 THEN <<s>>
     ELSE <<SubSeq(s, 1, k - 1)>> \o Split(SubSeq(s, k + 1, Len(s)), sep)

\* a variant that splits at every separator
SplitEvery(s, sep) == Split(s, sep)

\* bytes.split(sep, 1): split at the first separator only
SplitOnce(s, sep) ==
  LET k == IndexOf(s, sep, 1)
  IN IF k = 0 THEN <<s>>
     ELSE <<SubSeq(s, 1, k - 1), SubSeq(s, k + 1, Len(s))>>

RECURSIVE LStrip(_)
LStrip(s) == IF s # <<>> /\ Head(s) = " " THEN LStrip(Tail(s)) ELSE s

RECURSIVE RStrip(_)
RStrip(s) ==
  IF s # <<>> /\ s[Len(s)] = " " THEN RStrip(SubSeq(s, 1, Len(s) - 1)) ELSE s

\* bytes.strip()
Strip(s) == RStrip(LStrip(s))

DigitValue(c) == CASE c = "0" -> 0 [] c = "1" -> 1 [] c = "2" -> 2
                   [] c = "3" -> 3 [] c = "4" -> 4 [] c = "5" -> 5
                   [] c = "6" -> 6 [] c = "7" -> 7 [] c = "8" -> 8
                   [] c = "9" -> 9 [] OTHER -> -1

RECURSIVE Digits(_, _)
\* the value of a run of decimal digits, -1 when some symbol is no digit
Digits(s, acc) ==
  IF s = <<>> THEN acc
  ELSE IF DigitValue(Head(s)) < 0 THEN -1
  ELSE Digits(Tail(s), 10 * acc + DigitValue(Head(s)))

\* a variant that loses the sign
PyIntNoSign(b) ==
  LET t == Strip(b)
      signed == t # <<>> /\ Head(t) \in {"-", "+"}
      body == IF signed THEN Tail(t) ELSE t
      mag == IF body = <<>> THEN -1 ELSE Digits(body, 0)
  IN IF mag < 0 THEN [ok |-> FALSE, val |-> 0] ELSE [ok |-> TRUE, val |-> mag]

\* int(b): [ok |-> TRUE, val |-> n], or [ok |-> FALSE] for ValueError.
\* Surrounding blanks and one leading sign are accepted, nothing else.
PyInt(b) ==
  LET t == Strip(b)
      signed == t # <<>> /\ Head(t) \in {"-", "+"}
      body == IF signed THEN Tail(t) ELSE t
      mag == IF body = <<>> THEN -1 ELSE Digits(body, 0)
  IN IF mag < 0 THEN [ok |-> FALSE, val |-> 0]
     ELSE [ok |-> TRUE, val |-> IF signed /\ Head(t) = "-" THEN 0 - mag ELSE mag]

\* ---------------------------------------------------------------- CAAIssue
\* a variant in which the first value written for a key stays
DictSetKeepFirst(d, key, val) ==
  [k \in (DOMAIN d) \cup {key} |-> IF k \in DOMAIN d THEN d[k] ELSE val]

\* parameters_out[key] = val
DictSet(d, key, val) ==
  [k \in (DOMAIN d) \cup {key} |-> IF k = key THEN val ELSE d[k]]

\* one iteration of the loop over the segments after the issuer
ParseParam(d, p) ==
  LET parts == SplitOnce(p, "=")
  IN IF Len(parts) = 1
     THEN DictSet(d, Strip(parts[1]), None)
     ELSE DictSet(d, Strip(parts[1]), Some(Strip(parts[2])))

RECURSIVE ParseParams(_, _)
ParseParams(d, ps) ==
  IF ps = <<>> THEN d ELSE ParseParams(ParseParam(d, Head(ps)), Tail(ps))

\* CAAIssue.parse
parse(value) ==
  LET segs == Split(value, ";")
  IN [issuer |-> Strip(Head(segs)),
      parameters |-> ParseParams(<<>>, Tail(segs))]

\* a variant that takes a stored None for a missing property
get_propertyOrDefault(self, tag, default) ==
  IF tag \in DOMAIN self.parameters /\ self.parameters[tag] # None
  THEN self.parameters[tag] ELSE default

\* CAAIssue.get_property
get_property(self, tag, default) ==
  IF tag \in DOMAIN self.parameters THEN self.parameters[tag] ELSE default

\* ------------------------------------------------------------------ Issuer
\* Issuer.__eq__ / Issuer.__hash__: identity is the identifier alone
IssuerEq(x, y) == x.issuer = y.issuer

Contains(S, x) == \E e \in S : IssuerEq(e, x)

\* a variant in which the new element takes the place of its equal
SetAddReplacing(S, x) == {e \in S : ~IssuerEq(e, x)} \cup {x}

\* set.add: an element equal to one already held is dropped
SetAdd(S, x) == IF Contains(S, x) THEN S ELSE S \cup {x}

RECURSIVE SetFromList(_, _)
\* set(issuers): the elements are added in list order
SetFromList(S, l) ==
  IF l = <<>> THEN S ELSE SetFromList(SetAdd(S, Head(l)), Tail(l))

RECURSIVE IntersectInto(_, _, _)
IntersectInto(res, so, l) ==
  IF l = <<>> THEN res
  ELSE IntersectInto(IF Contains(so, Head(l)) THEN SetAdd(res, Head(l)) ELSE res,
                     so, Tail(l))

\* a variant that filters nothing
IntersectionUpdateKeepsAll(so, l) == so

\* set.intersection_update(list) as CPython runs it: a fresh set is filled
\* with the elements OF THE LIST that have an equal element in the set, and
\* then replaces the set's contents.
IntersectionUpdate(so, l) == IntersectInto({}, so, l)

RECURSIVE InsertSorted(_, _)
\* x goes after every element whose key is <= its own
InsertSorted(sorted, x) ==
  IF sorted = <<>> THEN <<x>>
  ELSE IF Head(sorted).priority <= x.priority
       THEN <<Head(sorted)>> \o InsertSorted(Tail(sorted), x)
       ELSE <<x>> \o sorted

\* a variant that leaves the iteration order as it is
SortedByPriorityNot(acc, l) == acc \o l

RECURSIVE SortedByPriority(_, _)
\* sorted(iterable, key=lambda i: i.priority): stable
SortedByPriority(acc, l) ==
  IF l = <<>> THEN acc ELSE SortedByPriority(InsertSorted(acc, Head(l)), Tail(l))

\* every order in which iterating the set S can yield its elements (the order
\* follows the hashes of the identifiers, which differ from run to run)
IterationOrders(S) ==
  {o \in [1..Cardinality(S) -> S] : \A e \in S : \E i \in DOMAIN o : o[i] = e}

\* map(lambda i: i.issuer, ...)
IssuerNames(l) == [i \in DOMAIN l |-> l[i].issuer]

\* --------------------------------------------------------------- selection
ParsedWithTag(rr, tag) ==
  LET tagged == SelectSeq(rr, LAMBDA r : r.tag = tag)
  IN [i \in DOMAIN tagged |-> parse(tagged[i].value)]

ErrNoCAA == "No CAA records found"
ErrPriority == "Invalid priority"
ErrResolve == "Failed to resolve CAA record"
ErrParse == "Failed to parse domain"
ErrNoCommon == "No common issuers found"

\* a variant that prefers issuewild for every domain
RelevantSetIgnoresWild(wild, rr) ==
  LET tagged(t) == SelectSeq(rr, LAMBDA r : r.tag = t)
      parsed(t) == [i \in DOMAIN tagged(t) |-> parse(tagged(t)[i].value)]
  IN IF parsed(<<"issuewild">>) # <<>>
     THEN [error |-> "", set |-> parsed(<<"issuewild">>)]
     ELSE IF parsed(<<"issue">>) # <<>>
     THEN [error |-> "", set |-> parsed(<<"issue">>)]
     ELSE [error |-> "No CAA records found", set |-> <<>>]

\* a variant that drops the records opting out of discovery before it tests
\* the sub-lists for emptiness
RelevantSetFiltered(wild, rr) ==
  LET keep(set) ==
        SelectSeq(set, LAMBDA r :
          get_property(r, <<"discovery">>, Some(<<"true">>)) = Some(<<"true">>))
      issue_wild_set == keep(ParsedWithTag(rr, <<"issuewild">>))
      issue_set == keep(ParsedWithTag(rr, <<"issue">>))
  IN IF wild /\ issue_wild_set # <<>> THEN [error |-> "", set |-> issue_wild_set]
     ELSE IF issue_set # <<>> THEN [error |-> "", set |-> issue_set]
     ELSE [error |-> ErrNoCAA, set |-> <<>>]

\* the choice of relevant_set: [error |-> "" or the message, set |-> the list]
RelevantSet(wild, rr) ==
  LET issue_wild_set == ParsedWithTag(rr, <<"issuewild">>)
      issue_set == ParsedWithTag(rr, <<"issue">>)
  IN IF wild
     THEN IF issue_wild_set # <<>> THEN [error |-> "", set |-> issue_wild_set]
          ELSE IF issue_set # <<>> THEN [error |-> "", set |-> issue_set]
          ELSE [error |-> ErrNoCAA, set |-> <<>>]
     ELSE IF issue_set # <<>> THEN [error |-> "", set |-> issue_set]
          ELSE [error |-> ErrNoCAA, set |-> <<>>]

RECURSIVE EmitIssuersValidatesFirst(_, _)
\* a variant that validates a record's priority before it looks at discovery
EmitIssuersValidatesFirst(relevant, issuers) ==
  IF relevant = <<>> THEN [error |-> "", issuers |-> issuers]
  ELSE LET r == Head(relevant)
           priority == get_property(r, <<"priority">>, None)
           n == PyInt(priority[1])
       IN IF priority # None /\ (~n.ok \/ n.val < 1)
          THEN [error |-> ErrPriority, issuers |-> <<>>]
          ELSE IF get_property(r, <<"discovery">>, Some(<<"true">>)) # Some(<<"true">>)
          THEN EmitIssuersValidatesFirst(Tail(relevant), issuers)
          ELSE EmitIssuersValidatesFirst(Tail(relevant),
                 Append(issuers, [issuer |-> r.issuer,
                                  priority |-> IF priority = None THEN 0 ELSE n.val]))

RECURSIVE EmitIssuers(_, _)
\* the loop over relevant_set: [error |-> "" or the message, issuers |-> list]
EmitIssuers(relevant, issuers) ==
  IF relevant = <<>> THEN [error |-> "", issuers |-> issuers]
  ELSE LET r == Head(relevant)
           priority == get_property(r, <<"priority">>, None)
           n == PyInt(priority[1])
       IN IF get_property(r, <<"discovery">>, Some(<<"true">>)) # Some(<<"true">>)
          THEN EmitIssuers(Tail(relevant), issuers)
          ELSE IF priority = None
          THEN EmitIssuers(Tail(relevant),
                           Append(issuers, [issuer |-> r.issuer, priority |-> 0]))
          ELSE IF ~n.ok \/ n.val < 1
          THEN [error |-> ErrPriority, issuers |-> <<>>]
          ELSE EmitIssuers(Tail(relevant),
                           Append(issuers, [issuer |-> r.issuer, priority |-> n.val]))

\* one domain's record set to its issuer list
SelectIssuers(wild, rr) ==
  LET rel == RelevantSet(wild, rr)
  IN IF rel.error # "" THEN [error |-> rel.error, issuers |-> <<>>]
     ELSE EmitIssuers(rel.set, <<>>)

\* ------------------------------------------------------------------- names
Labels == {"*", "a"}
root == <<"">>

\* a variant that goes two labels up where it can
grandparent(name) == IF Len(name) > 2 THEN Tail(Tail(name)) ELSE Tail(name)

\* Name.parent()
parent(name) == Tail(name)

\* Name.is_wild()
is_wild(name) == Len(name) > 0 /\ Head(name) = "*"

\* the requested domains as texts: the pieces between the dots.  An empty
\* piece is an empty label, which dns.name.from_text rejects; <<"">> is the
\* one such text.
DomainTexts == UNION {[1..k -> Labels] : k \in 0..MaxLabels} \cup {<<"">>}

\* dns.name.from_text: [ok |-> FALSE] for a DNSException, else the absolute name
from_text(text) ==
  IF \E i \in DOMAIN text : text[i] = ""
  THEN [ok |-> FALSE, name |-> root]
  ELSE [ok |-> TRUE, name |-> text \o root]

\* a variant that compares with the empty name instead of the root
WalkOnPastRoot(name) == name # <<>>

\* the while condition of the walk
WalkOn(name) == name # root

\* a variant that starts every walk at the domain
StartNameSelf(domain) == domain

\* the name the walk starts at
StartName(domain) == IF is_wild(domain) THEN parent(domain) ELSE domain

\* ------------------------------------------------------------- DNS answers
\* the values of the records the resolver can answer with: "ca1",
\* "ca1; priority=1", "ca2", "ca2;priority=0" and "ca2; discovery=false"
RecordValues ==
  {<<"ca1">>,
   <<"ca1", ";", " ", "priority", "=", "1">>,
   <<"ca2">>,
   <<"ca2", ";", "priority", "=", "0">>,
   <<"ca2", ";", " ", "discovery", "=", "false">>}

Records == [tag : {<<"issue">>, <<"issuewild">>}, value : RecordValues]

\* the non-empty record sets a CAA query can answer with, in the order
\* processing_order() hands them out
RRsets == UNION {[1..k -> Records] : k \in 1..MaxRecords}

\* what lines 86-131 make of each non-empty answer, for a wildcard domain
\* (TRUE) and for any other domain (FALSE)
Outcomes == [wild \in BOOLEAN |-> {SelectIssuers(wild, rr) : rr \in RRsets}]

\* ------------------------------------------------------------------- state
VARIABLES
  todo,                  \* config.domains not yet taken by the first loop
  started,               \* how many domains the first loop has taken
  domain,                \* the domain being processed
  name,                  \* the name the walk is at
  queried,               \* the CAA queries made for this domain, with their answers
  domains,               \* the issuer list of every processed domain
  j,                     \* the second loop's position in domains
  issuers_intersection,  \* None, or Some(the running set)
  result,                \* the returned list
  error,                 \* the message of the raised errors.Error
  pc,                    \* "loop", "walk", "intersect", "returned", "raised"
  outcomes,              \* Outcomes, worked out once for the whole run
  sel_wild, sel_rr, relevant_set, issuers, sel_error, sel_pc,
  p_value,               \* a record value as written: issuer and segments
  p_parsed,              \* the CAAIssue parse() made of it
  p_tag, p_default,      \* the arguments of a get_property call
  p_got,                 \* what the call returned
  p_out,                 \* what the selection loop makes of the one record
  p_pc,                  \* "start", "parsed", "got", "emitted"
  d_issuer,              \* the argument of issuer_to_directory
  d_url,                 \* the URL it returned
  d_pc                   \* "start", "returned", "raised"

walk_vars == <<todo, started, domain, name, queried>>
fold_vars == <<domains, j, issuers_intersection, result>>
sel_vars == <<sel_wild, sel_rr, relevant_set, issuers, sel_error, sel_pc>>
aux_vars == <<p_value, p_parsed, p_tag, p_default, p_got, p_out, p_pc,
              d_issuer, d_url, d_pc>>
vars == <<walk_vars, fold_vars, error, pc, outcomes, sel_vars, aux_vars>>

AuxOff ==
  /\ p_value = <<>> /\ p_parsed = <<>> /\ p_tag = <<>> /\ p_default = <<>>
  /\ p_got = <<>> /\ p_out = <<>> /\ p_pc = "off"
  /\ d_issuer = <<>> /\ d_url = <<>> /\ d_pc = "off"

SelOff ==
  /\ sel_wild = FALSE /\ sel_rr = <<>> /\ relevant_set = <<>>
  /\ issuers = <<>> /\ sel_error = "" /\ sel_pc = "off"

Init ==
  /\ outcomes = Outcomes
  /\ todo \in UNION {[1..n -> DomainTexts] : n \in 0..MaxDomains}
  /\ started = 0
  /\ domain = root /\ name = root /\ queried = <<>>
  /\ domains = <<>> /\ j = 1 /\ issuers_intersection = None
  /\ result = <<>> /\ error = "" /\ pc = "loop"
  /\ SelOff /\ AuxOff

Raise(msg) == pc' = "raised" /\ error' = msg

\* ------------------------------------------------------- the per-domain loop
\* the loop takes a domain whose text does not parse
DomainRejected ==
  /\ pc = "loop" /\ todo # <<>>
  /\ ~from_text(Head(todo)).ok
  /\ todo' = Tail(todo) /\ started' = started + 1
  /\ Raise(ErrParse)
  /\ UNCHANGED <<domain, name, queried, fold_vars, outcomes, sel_vars, aux_vars>>

\* the loop takes the next domain and sets the walk's start
DomainStarted ==
  /\ pc = "loop" /\ todo # <<>>
  /\ from_text(Head(todo)).ok
  /\ todo' = Tail(todo) /\ started' = started + 1
  /\ domain' = from_text(Head(todo)).name
  /\ name' = StartName(domain')
  /\ queried' = <<>>
  /\ pc' = "walk"
  /\ UNCHANGED <<fold_vars, error, outcomes, sel_vars, aux_vars>>

\* a variant that swallows the exception and walks on
ResolveFailedSwallowed ==
  /\ pc = "walk" /\ name # <<"">>
  /\ queried' = Append(queried, [name |-> name, answer |-> "exception"])
  /\ name' = Tail(name)
  /\ UNCHANGED <<todo, started, domain, fold_vars, error, pc, outcomes, sel_vars, aux_vars>>

\* resolver.resolve raises a DNSException
ResolveFailed ==
  /\ pc = "walk" /\ WalkOn(name)
  /\ queried' = Append(queried, [name |-> name, answer |-> "exception"])
  /\ Raise(ErrResolve)
  /\ UNCHANGED <<todo, started, domain, name, fold_vars, outcomes, sel_vars, aux_vars>>

\* resolver.resolve answers with no record set: one label up
ResolveEmpty ==
  /\ pc = "walk" /\ WalkOn(name)
  /\ queried' = Append(queried, [name |-> name, answer |-> "empty"])
  /\ name' = parent(name)
  /\ UNCHANGED <<todo, started, domain, fold_vars, error, pc, outcomes, sel_vars, aux_vars>>

\* resolver.resolve answers with records: the walk ends and the domain's
\* issuer list is built, or building it raises.  When the list is appended the
\* loop body is over: domain, name and the query log are dead until the next
\* iteration binds them again, and are cleared.
ResolveFound ==
  /\ pc = "walk" /\ WalkOn(name)
  /\ \E out \in outcomes[is_wild(domain)] :
       IF out.error # ""
       THEN /\ Raise(out.error)
            /\ queried' = Append(queried, [name |-> name, answer |-> "rrset"])
            /\ UNCHANGED <<domain, name, domains>>
       ELSE /\ domains' = Append(domains, out.issuers)
            /\ domain' = root /\ name' = root /\ queried' = <<>>
            /\ pc' = "loop" /\ UNCHANGED error
  /\ UNCHANGED <<todo, started, j, issuers_intersection, result, outcomes,
                 sel_vars, aux_vars>>

\* the walk is at the root with nothing found
WalkExhausted ==
  /\ pc = "walk" /\ ~WalkOn(name)
  /\ Raise(ErrNoCAA)
  /\ UNCHANGED <<walk_vars, fold_vars, outcomes, sel_vars, aux_vars>>

\* a variant that leaves the first loop with domains still to take
DomainsDoneEarly ==
  /\ pc = "loop"
  /\ pc' = "intersect"
  /\ UNCHANGED <<walk_vars, fold_vars, error, outcomes, sel_vars, aux_vars>>

\* the first loop ends
DomainsDone ==
  /\ pc = "loop" /\ todo = <<>>
  /\ pc' = "intersect"
  /\ UNCHANGED <<walk_vars, fold_vars, error, outcomes, sel_vars, aux_vars>>

\* ------------------------------------------------------ the intersection loop
IntersectStep ==
  /\ pc = "intersect" /\ j <= Len(domains)
  /\ issuers_intersection' =
       IF issuers_intersection = None
       THEN Some(SetFromList({}, domains[j]))
       ELSE Some(IntersectionUpdate(issuers_intersection[1], domains[j]))
  /\ j' = j + 1
  /\ UNCHANGED <<walk_vars, domains, result, error, pc, outcomes, sel_vars, aux_vars>>

\* a variant that tests for None only
NoIssuersOnlyNone(x) == x = None

\* not issuers_intersection
NoIssuers(x) == IF x = None THEN TRUE ELSE x[1] = {}

NoCommonIssuers ==
  /\ pc = "intersect" /\ j > Len(domains)
  /\ NoIssuers(issuers_intersection)
  /\ Raise(ErrNoCommon)
  /\ UNCHANGED <<walk_vars, fold_vars, outcomes, sel_vars, aux_vars>>

Return ==
  /\ pc = "intersect" /\ j > Len(domains)
  /\ ~NoIssuers(issuers_intersection)
  /\ \E order \in IterationOrders(issuers_intersection[1]) :
       result' = IssuerNames(SortedByPriority(<<>>, order))
  /\ pc' = "returned"
  /\ UNCHANGED <<walk_vars, domains, j, issuers_intersection, error, outcomes,
                 sel_vars, aux_vars>>

Next ==
  \/ DomainRejected
  \/ DomainStarted
  \/ ResolveFailed
  \/ ResolveEmpty
  \/ ResolveFound
  \/ WalkExhausted
  \/ DomainsDone
  \/ IntersectStep
  \/ NoCommonIssuers
  \/ Return

Spec == Init /\ [][Next]_vars

\* ------------------------------------------- selection on its own (86-131)
SelRecordValues ==
  RecordValues \cup {<<"ca1", ";", "discovery", "=", "false">>,
                     <<"ca1", ";", "discovery", "=", "false", ";",
                       "priority", "=", "x">>}

SelRecords ==
  [tag : {<<"issue">>, <<"issuewild">>, <<"iodef">>}, value : SelRecordValues]

MainOff ==
  /\ todo = <<>> /\ started = 0 /\ domain = root /\ name = root
  /\ queried = <<>> /\ domains = <<>> /\ j = 1
  /\ issuers_intersection = None /\ result = <<>> /\ error = ""
  /\ pc = "off" /\ outcomes = <<>>

main_vars == <<walk_vars, fold_vars, error, pc, outcomes>>

SelInit ==
  /\ MainOff /\ AuxOff
  /\ sel_wild \in BOOLEAN
  /\ sel_rr \in UNION {[1..k -> SelRecords] : k \in 1..MaxRecords}
  /\ relevant_set = <<>> /\ issuers = <<>> /\ sel_error = ""
  /\ sel_pc = "start"

\* lines 86-110: the sub-list is chosen
SelChoose ==
  /\ sel_pc = "start"
  /\ LET rel == RelevantSet(sel_wild, sel_rr)
     IN IF rel.error # ""
        THEN sel_pc' = "raised" /\ sel_error' = rel.error /\ UNCHANGED relevant_set
        ELSE sel_pc' = "chosen" /\ relevant_set' = rel.set /\ UNCHANGED sel_error
  /\ UNCHANGED <<main_vars, aux_vars, sel_wild, sel_rr, issuers>>

\* lines 112-131: the issuer list is built from the chosen sub-list
SelEmit ==
  /\ sel_pc = "chosen"
  /\ LET out == EmitIssuers(relevant_set, <<>>)
     IN IF out.error # ""
        THEN sel_pc' = "raised" /\ sel_error' = out.error /\ UNCHANGED issuers
        ELSE sel_pc' = "emitted" /\ issuers' = out.issuers /\ UNCHANGED sel_error
  /\ UNCHANGED <<main_vars, aux_vars, sel_wild, sel_rr, relevant_set>>

SelNext == SelChoose \/ SelEmit

SelSpec == SelInit /\ [][SelNext]_vars

\* ------------------------------- the loop over relevant_set on its own
\* record values that differ in their discovery and priority properties
EmitValues ==
  {<<"ca1">>,
   <<"ca2", ";", " ", "priority", "=", "1">>,
   <<"ca1", ";", " ", "priority", "=", "2">>,
   <<"ca2", ";", "priority", "=", "0">>,
   <<"ca1", ";", " ", "priority", "=", "-", "1">>,
   <<"ca2", ";", " ", "priority", "=", "x">>,
   <<"ca1", ";", " ", "priority">>,
   <<"ca2", ";", " ", "priority", "=">>,
   <<"ca2", ";", " ", "discovery", "=", "false">>,
   <<"ca1", ";", " ", "discovery", "=", "true">>,
   <<"ca2", ";", " ", "discovery">>,
   <<"ca1", ";", "discovery", "=", "TRUE">>,
   <<"ca1", ";", "discovery", "=", "false", ";", "priority", "=", "0">>,
   <<"ca2", ";", " ", "discovery", " ", "=", " ", "true", " ", ";",
     " ", "priority", " ", "=", " ", "1", "0", " ">>}

EmitRecords == [tag : {<<"issue">>}, value : EmitValues]

\* a domain that is no wildcard, answered with issue records only
EmitInit ==
  /\ MainOff /\ AuxOff
  /\ sel_wild = FALSE
  /\ sel_rr \in UNION {[1..k -> EmitRecords] : k \in 1..MaxRecords}
  /\ relevant_set = <<>> /\ issuers = <<>> /\ sel_error = ""
  /\ sel_pc = "start"

EmitSpec == EmitInit /\ [][SelNext]_vars

\* ------------------------------------------------- CAAIssue on its own
PNames == {<<"priority">>, <<"discovery">>}
PTexts == {<<>>, <<"1">>, <<"0">>, <<"true">>, <<"false">>, <<"a", "=", "b">>}

\* a segment as written: a name, then "=" and a text when eq, with blanks
\* around the name and the text when pad
Segments ==
  {g \in [name : PNames, eq : BOOLEAN, text : PTexts, pad : BOOLEAN] :
     g.eq \/ g.text = <<>>}

Written ==
  [issuer : {<<"ca1">>},
   segs : UNION {[1..k -> Segments] : k \in 0..MaxSegments}]

Pad(b, pad) == IF pad THEN <<" ">> \o b \o <<" ">> ELSE b

RenderSegment(g) ==
  Pad(g.name, g.pad) \o (IF g.eq THEN <<"=">> \o Pad(g.text, g.pad) ELSE <<>>)

RECURSIVE RenderSegments(_)
RenderSegments(gs) ==
  IF gs = <<>> THEN <<>>
  ELSE <<";">> \o RenderSegment(Head(gs)) \o RenderSegments(Tail(gs))

\* the bytes of a record value
Render(w) == Pad(w.issuer, TRUE) \o RenderSegments(w.segs)

PInit ==
  /\ MainOff /\ SelOff
  /\ p_value \in Written
  /\ p_parsed = <<>> /\ p_tag = <<>> /\ p_default = <<>>
  /\ p_got = <<>> /\ p_out = <<>> /\ p_pc = "start"
  /\ d_issuer = <<>> /\ d_url = <<>> /\ d_pc = "off"

\* CAAIssue.parse(r.value)
PParse ==
  /\ p_pc = "start"
  /\ p_parsed' = parse(Render(p_value))
  /\ p_pc' = "parsed"
  /\ UNCHANGED <<main_vars, sel_vars, p_value, p_tag, p_default, p_got, p_out,
                 d_issuer, d_url, d_pc>>

\* rr.get_property(tag, default)
PGet ==
  /\ p_pc = "parsed"
  /\ \E tag \in PNames \cup {<<"flag">>}, default \in {None, Some(<<"true">>)} :
       /\ p_tag' = tag /\ p_default' = default
       /\ p_got' = get_property(p_parsed, tag, default)
  /\ p_pc' = "got"
  /\ UNCHANGED <<main_vars, sel_vars, p_value, p_parsed, p_out,
                 d_issuer, d_url, d_pc>>

\* lines 112-129 for a sub-list made of this one record
PEmit ==
  /\ p_pc = "parsed"
  /\ p_out' = EmitIssuers(<<p_parsed>>, <<>>)
  /\ p_pc' = "emitted"
  /\ UNCHANGED <<main_vars, sel_vars, p_value, p_parsed, p_tag, p_default, p_got,
                 d_issuer, d_url, d_pc>>

PNext == PParse \/ PGet \/ PEmit

PSpec == PInit /\ [][PNext]_vars

\* ---------------------------------------------------- issuer_to_directory
\* bytes and characters are their code numbers: "." "@" "A" "Z" "[" "a" "z",
\* DEL, and two bytes outside ASCII
IssuerBytes == {46, 64, 65, 90, 91, 97, 122, 127, 128, 255}

ErrIssuer == "Invalid issuer"

\* bytes.decode("ascii") raises UnicodeDecodeError on a byte above 127
DecodesAscii(b) == \A i \in DOMAIN b : b[i] < 128

\* a variant of str.lower() that leaves every character as it is
LowerKept(c) == c

\* str.lower() on an ASCII character
Lower(c) == IF c \in 65..90 THEN c + 32 ELSE c

\* "https://" and "/.well-known/acme"
Https == <<104, 116, 116, 112, 115, 58, 47, 47>>
WellKnown == <<47, 46, 119, 101, 108, 108, 45, 107, 110, 111, 119, 110,
               47, 97, 99, 109, 101>>

DirInit ==
  /\ MainOff /\ SelOff
  /\ p_value = <<>> /\ p_parsed = <<>> /\ p_tag = <<>> /\ p_default = <<>>
  /\ p_got = <<>> /\ p_out = <<>> /\ p_pc = "off"
  /\ d_issuer \in UNION {[1..k -> IssuerBytes] : k \in 0..MaxIssuerLen}
  /\ d_url = <<>> /\ d_pc = "start"

dir_frame ==
  <<walk_vars, fold_vars, pc, outcomes, sel_vars, p_value, p_parsed, p_tag,
    p_default, p_got, p_out, p_pc, d_issuer>>

\* lines 152 and 157: decoded, lower-cased, put into the URL
DirReturn ==
  /\ d_pc = "start"
  /\ DecodesAscii(d_issuer)
  /\ d_url' = Https \o [i \in DOMAIN d_issuer |-> Lower(d_issuer[i])] \o WellKnown
  /\ d_pc' = "returned"
  /\ UNCHANGED <<dir_frame, error>>

\* lines 153-154: the decoding error becomes errors.Error
DirRaise ==
  /\ d_pc = "start"
  /\ ~DecodesAscii(d_issuer)
  /\ error' = ErrIssuer
  /\ d_pc' = "raised"
  /\ UNCHANGED <<dir_frame, d_url>>

DirNext == DirReturn \/ DirRaise

DirSpec == DirInit /\ [][DirNext]_vars

\* ================================================================== claims
\* the identifiers of an issuer list
Ids(l) == {l[m].issuer : m \in DOMAIN l}

\* the identifiers every processed domain's list holds
CommonIds == {id \in UNION {Ids(domains[k]) : k \in DOMAIN domains} :
                \A k \in DOMAIN domains : id \in Ids(domains[k])}

RunningSet == IF issuers_intersection = None THEN {} ELSE issuers_intersection[1]

\* the priority the final running set holds for an identifier
FinalPriority(id) == (CHOOSE e \in RunningSet : e.issuer = id).priority

\* the place of an identifier's first record in an issuer list
FirstPlace(l, id) == CHOOSE m \in DOMAIN l :
                       l[m].issuer = id /\ \A k \in 1..(m - 1) : l[k].issuer # id

\* C1: at every intersection step each issuer that survives keeps the
\* priority the running set held for it before the step.
C1_FirstContributorWins ==
  [][IF issuers_intersection = None \/ issuers_intersection' = None
     THEN TRUE
     ELSE issuers_intersection'[1] \subseteq issuers_intersection[1]]_vars

\* C2: a returned list holds exactly the identifiers found in every processed
\* domain's issuer list, each once.
C2_CommonIssuers ==
  pc = "returned" =>
    /\ {result[i] : i \in DOMAIN result} = CommonIds
    /\ \A a, b \in DOMAIN result : a # b => result[a] # result[b]

C2_Witness ==
  /\ pc = "returned" /\ Len(domains) = 2
  /\ Ids(domains[1]) \ Ids(domains[2]) # {}

\* C3: a returned list is ascending in the priority the final running set
\* holds for each identifier.
C3_SortedAscending ==
  pc = "returned" =>
    \A a, b \in DOMAIN result :
      a < b => FinalPriority(result[a]) <= FinalPriority(result[b])

C3_Witness ==
  /\ pc = "returned" /\ Len(result) = 2
  /\ FinalPriority(result[1]) < FinalPriority(result[2])

\* C4: two returned identifiers of equal priority stand in the order of their
\* records in the (first) domain's record set.
C4_TiesInRecordOrder ==
  pc = "returned" =>
    \A a, b \in DOMAIN result :
      (a < b /\ FinalPriority(result[a]) = FinalPriority(result[b]))
        => FirstPlace(domains[1], result[a]) < FirstPlace(domains[1], result[b])

C4_Witness ==
  /\ pc = "returned" /\ Len(result) = 2
  /\ FinalPriority(result[1]) = FinalPriority(result[2])

PerDomainErrors == {ErrParse, ErrResolve, ErrNoCAA, ErrPriority}

\* C5: "No common issuers found" is raised only once every requested domain
\* has been processed without error and no identifier is common to all the
\* lists, and a list is returned only when some identifier is common; a call
\* that stops before every domain is processed raises a per-domain error.
C5_NoCommonOnlyAtEnd ==
  /\ error = ErrNoCommon =>
       /\ pc = "raised" /\ todo = <<>> /\ Len(domains) = started
       /\ j = Len(domains) + 1 /\ CommonIds = {}
  /\ pc = "returned" =>
       /\ todo = <<>> /\ Len(domains) = started /\ CommonIds # {}
  /\ (pc = "raised" /\ (todo # <<>> \/ Len(domains) < started)) =>
       error \in PerDomainErrors

C5_Witness ==
  /\ error = ErrNoCommon /\ Len(domains) = 2
  /\ domains[1] # <<>> /\ domains[2] # <<>>

\* an earlier domain already left nothing in common, and the later domain's
\* own error is what the call raises
C5_LaterErrorWitness ==
  /\ pc = "raised" /\ error \in PerDomainErrors
  /\ Len(domains) = 1 /\ domains[1] = <<>> /\ started = 2

EntriesWith(answer) == {i \in DOMAIN queried : queried[i].answer = answer}

\* C6: a resolver exception, or a record set from which no issuer list can be
\* built, is the last query of the call: the call is in its raised state with
\* the matching error and no list, and no step follows a raised state.
C6_FailFast ==
  [][/\ pc = "raised" => UNCHANGED vars
     /\ EntriesWith("exception")' # {} =>
          (pc' = "raised" /\ error' = ErrResolve
             /\ EntriesWith("exception")' = {Len(queried')})
     /\ EntriesWith("rrset")' # {} =>
          (pc' = "raised" /\ error' \in {ErrNoCAA, ErrPriority}
             /\ EntriesWith("rrset")' = {Len(queried')})
     /\ pc' = "raised" => (result' = <<>> /\ error' # "")
     /\ pc' = "returned" => error' = ""]_vars

C6_Witness ==
  /\ pc = "raised" /\ error = ErrResolve
  /\ todo # <<>> /\ Len(name) > 2 /\ Len(queried) = 1

\* C7: the first query of a domain is for its parent when its leading label
\* is "*" and for the domain itself otherwise, and a wildcard domain's own
\* name is never queried.
C7_WalkStart ==
  pc \in {"walk", "raised"} =>
    /\ queried # <<>> =>
         queried[1].name = IF Head(domain) = "*" THEN Tail(domain) ELSE domain
    /\ Head(domain) = "*" =>
         \A i \in DOMAIN queried : queried[i].name # domain

C7_Witness ==
  /\ pc = "walk" /\ Head(domain) = "*" /\ Len(queried) = 1

\* C8: the queries of a walk go one label up at a time, every answer but the
\* last is empty, and a walk that is still going has had only empty answers
\* and is at the parent of the last name it asked for.
C8_NearestAncestor ==
  /\ \A i \in 1..(Len(queried) - 1) :
       /\ queried[i].answer = "empty"
       /\ queried[i + 1].name = Tail(queried[i].name)
  /\ pc = "walk" =>
       /\ EntriesWith("empty") = DOMAIN queried
       /\ queried # <<>> => name = Tail(queried[Len(queried)].name)

C8_Witness ==
  /\ Len(queried) = 2 /\ queried[2].answer = "rrset"

\* the names from a start name up to the top-level label
RECURSIVE Chain(_)
Chain(n) == IF Len(n) <= 1 THEN <<>> ELSE <<n>> \o Chain(Tail(n))

WalkStart == IF Head(domain) = "*" THEN Tail(domain) ELSE domain

\* C9: a walk makes at most one query per label of its start name, never one
\* for the root; when every answer is empty the names from the start name to
\* the top-level label have each been asked once and the call raises "No CAA
\* records found", with no query at all when the start name is the root.
C9_WalkExhaustion ==
  /\ \A i \in DOMAIN queried : queried[i].name # <<"">>
  /\ \A a, b \in DOMAIN queried : a # b => queried[a].name # queried[b].name
  /\ pc = "walk" =>
       /\ Len(name) >= 1
       /\ Len(queried) + Len(name) = Len(WalkStart)
  /\ (pc = "raised" /\ error \in {ErrResolve, ErrNoCAA, ErrPriority}
        /\ EntriesWith("empty") = DOMAIN queried) =>
       /\ error = ErrNoCAA
       /\ [i \in DOMAIN queried |-> queried[i].name] = Chain(WalkStart)
  /\ (pc = "walk" /\ Len(queried) = Len(Chain(WalkStart))) => name = <<"">>

C9_Witness ==
  /\ pc = "raised" /\ error = ErrNoCAA /\ Len(queried) = 2
  /\ EntriesWith("empty") = DOMAIN queried

C9_RootWitness ==
  /\ pc = "raised" /\ error = ErrNoCAA /\ queried = <<>> /\ started = 1

TaggedValues(tag) ==
  LET tagged == SelectSeq(sel_rr, LAMBDA r : r.tag = tag)
  IN [i \in DOMAIN tagged |-> parse(tagged[i].value)]

Chose(set) ==
  /\ relevant_set = set
  /\ sel_pc \in {"chosen", "emitted"} \/ (sel_pc = "raised" /\ sel_error = ErrPriority)

ChoseNone == sel_pc = "raised" /\ sel_error = ErrNoCAA /\ relevant_set = <<>>

\* C10: a wildcard domain's sub-list is its issuewild records when there is
\* one, else its issue records, else "No CAA records found"; any other
\* domain's sub-list is its issue records, else "No CAA records found".
C10_SubListSelection ==
  sel_pc \in {"chosen", "emitted", "raised"} =>
    IF sel_wild /\ TaggedValues(<<"issuewild">>) # <<>>
    THEN Chose(TaggedValues(<<"issuewild">>))
    ELSE IF TaggedValues(<<"issue">>) # <<>>
    THEN Chose(TaggedValues(<<"issue">>))
    ELSE ChoseNone

C10_Witness ==
  /\ sel_pc = "emitted" /\ sel_wild
  /\ TaggedValues(<<"issuewild">>) = <<>> /\ Len(relevant_set) = 1
  /\ Len(sel_rr) = 2

\* the record may be discovered: no discovery property, or one stored as true
Allowed(r) ==
  \/ <<"discovery">> \notin DOMAIN r.parameters
  \/ r.parameters[<<"discovery">>] = <<<<"true">>>>

\* the records of the chosen sub-list that may be discovered, in record order
Surviving == SelectSeq(relevant_set, Allowed)

\* C11: the issuer list holds one issuer for each record of the chosen
\* sub-list whose discovery property is missing or stored as the literal
\* true, in record order, and none for any other record.
C11_DiscoveryFilter ==
  sel_pc = "emitted" =>
    [i \in DOMAIN issuers |-> issuers[i].issuer]
      = [i \in DOMAIN Surviving |-> Surviving[i].issuer]

C11_Witness ==
  /\ sel_pc = "emitted" /\ Len(relevant_set) = 2 /\ Len(issuers) = 1
  /\ <<"discovery">> \in DOMAIN relevant_set[1].parameters
  /\ relevant_set[1].parameters[<<"discovery">>] = <<>>

HasPriorityValue(r) ==
  /\ <<"priority">> \in DOMAIN r.parameters
  /\ r.parameters[<<"priority">>] # <<>>

PriorityText(r) == r.parameters[<<"priority">>][1]

\* the priority texts that are integers >= 1, with their values
GoodPriorities == {<<"1">>, <<"2">>, <<"1", "0">>}
GoodPriorityValue(t) ==
  CASE t = <<"1">> -> 1 [] t = <<"2">> -> 2 [] t = <<"1", "0">> -> 10

BadlyPrioritised ==
  {i \in DOMAIN Surviving :
     HasPriorityValue(Surviving[i]) /\ PriorityText(Surviving[i]) \notin GoodPriorities}

\* C12: a surviving record without a priority property is emitted with
\* priority 0; one with a priority value is emitted with that value when it
\* is an integer >= 1; and the selection raises "Invalid priority" exactly
\* when some surviving record has a priority value that is not.
C12_PriorityResolution ==
  /\ sel_pc = "emitted" =>
       /\ Len(issuers) = Len(Surviving)
       /\ \A i \in DOMAIN Surviving :
            /\ <<"priority">> \notin DOMAIN Surviving[i].parameters
                 => issuers[i].priority = 0
            /\ HasPriorityValue(Surviving[i])
                 => /\ PriorityText(Surviving[i]) \in GoodPriorities
                    /\ issuers[i].priority = GoodPriorityValue(PriorityText(Surviving[i]))
  /\ sel_pc \in {"emitted", "raised"} =>
       (BadlyPrioritised # {} <=> (sel_pc = "raised" /\ sel_error = ErrPriority))

C12_Witness ==
  /\ sel_pc = "raised" /\ sel_error = ErrPriority /\ Len(relevant_set) = 2
  /\ <<"priority">> \notin DOMAIN relevant_set[1].parameters
  /\ Allowed(relevant_set[1])
  /\ HasPriorityValue(relevant_set[2])
  /\ PriorityText(relevant_set[2]) = <<"0">>

C12_AcceptedWitness ==
  /\ sel_pc = "emitted" /\ Len(issuers) = 2
  /\ issuers[1].priority = 10 /\ issuers[2].priority = 0

\* the surviving records whose priority property was written without a value
Valueless ==
  {i \in DOMAIN Surviving :
     /\ <<"priority">> \in DOMAIN Surviving[i].parameters
     /\ Surviving[i].parameters[<<"priority">>] = <<>>}

\* C13: once the running set is initialised from the first domain's list it
\* holds each identifier of the list once, with the priority of the
\* identifier's first record in the list.
C13_FirstOccurrenceKept ==
  (pc = "intersect" /\ j = 2) =>
    /\ Ids(domains[1]) = {e.issuer : e \in issuers_intersection[1]}
    /\ \A e \in issuers_intersection[1] :
         /\ e = domains[1][FirstPlace(domains[1], e.issuer)]
         /\ \A f \in issuers_intersection[1] : f.issuer = e.issuer => f = e

C13_Witness ==
  /\ pc = "intersect" /\ j = 2 /\ Len(domains[1]) = 2
  /\ domains[1][1].issuer = domains[1][2].issuer
  /\ domains[1][1].priority # domains[1][2].priority

\* C17: a surviving record whose priority property has no value makes the
\* selection raise "Invalid priority".
C17_ValuelessPriorityRejected ==
  (sel_pc \in {"emitted", "raised"} /\ Valueless # {}) =>
    (sel_pc = "raised" /\ sel_error = ErrPriority)

\* the places of the written segments that carry a name
PlacesOf(nm) == {i \in DOMAIN p_value.segs : p_value.segs[i].name = nm}

LastPlace(nm) == CHOOSE i \in PlacesOf(nm) : \A k \in PlacesOf(nm) : k <= i

\* what a written segment stores: None without "=", else the text after it
StoredBy(g) == IF g.eq THEN <<g.text>> ELSE <<>>

\* the written value with only the last segment of every name
LastOnly ==
  [issuer |-> p_value.issuer,
   segs |-> SelectSeq([i \in DOMAIN p_value.segs |->
                          [seg |-> p_value.segs[i],
                           last |-> i = LastPlace(p_value.segs[i].name)]],
                      LAMBDA x : x.last)]

\* C14: the parsed record holds, for every name written, what the LAST
\* segment of that name stores, and the selection loop treats the record as
\* it treats the record written with those last segments alone.
C14_LastWriteWins ==
  /\ p_pc \in {"parsed", "got", "emitted"} =>
       /\ DOMAIN p_parsed.parameters = {nm \in PNames : PlacesOf(nm) # {}}
       /\ \A nm \in DOMAIN p_parsed.parameters :
            p_parsed.parameters[nm] = StoredBy(p_value.segs[LastPlace(nm)])
  /\ p_pc = "emitted" =>
       p_out = EmitIssuers(
                 <<parse(Render([issuer |-> p_value.issuer,
                                 segs |-> [i \in DOMAIN LastOnly.segs |->
                                             LastOnly.segs[i].seg]]))>>, <<>>)

C14_Witness ==
  /\ p_pc = "emitted" /\ Len(p_value.segs) = 2
  /\ p_value.segs[1].name = <<"discovery">> /\ p_value.segs[1].text = <<"false">>
  /\ p_value.segs[2].name = <<"discovery">> /\ p_value.segs[2].text = <<"true">>
  /\ Len(p_out.issuers) = 1

\* C15: get_property returns the default when no segment is written with the
\* name, and otherwise what the name's (last) segment stores, whatever the
\* default: None without "=", else the trimmed text after the first "=".
C15_GetProperty ==
  p_pc = "got" =>
    p_got = IF PlacesOf(p_tag) = {} THEN p_default
            ELSE StoredBy(p_value.segs[LastPlace(p_tag)])

C15_Witness ==
  /\ p_pc = "got" /\ p_default = <<<<"true">>>> /\ p_got = <<>>
  /\ Len(p_value.segs) = 2 /\ p_value.segs[1].pad

C15_TextWitness ==
  /\ p_pc = "got" /\ p_default = <<>> /\ p_got = <<<<"a", "=", "b">>>>

\* C16: an identifier of ASCII bytes only gives the URL https://, the
\* identifier with A-Z turned to a-z, /.well-known/acme; an identifier with
\* a byte outside ASCII gives the error and no URL.
C16_IssuerToDirectory ==
  LET ascii == \A i \in DOMAIN d_issuer : d_issuer[i] \in 0..127
      n == Len(d_issuer)
  IN /\ d_pc = "start" =>
          /\ (ENABLED DirReturn) <=> ascii
          /\ (ENABLED DirRaise) <=> ~ascii
     /\ d_pc = "returned" =>
          /\ ascii
          /\ Len(d_url) = 8 + n + 17
          /\ SubSeq(d_url, 1, 8) = <<104, 116, 116, 112, 115, 58, 47, 47>>
          /\ \A i \in 1..n :
               d_url[8 + i] = IF d_issuer[i] >= 65 /\ d_issuer[i] <= 90
                              THEN d_issuer[i] + 32 ELSE d_issuer[i]
          /\ SubSeq(d_url, 9 + n, 25 + n) =
               <<47, 46, 119, 101, 108, 108, 45, 107, 110, 111, 119, 110,
                 47, 97, 99, 109, 101>>
     /\ d_pc = "raised" => ~ascii /\ d_url = <<>> /\ error = ErrIssuer

C16_Witness == d_pc = "returned" /\ d_issuer = <<90, 46>>

C16_RaisedWitness == d_pc = "raised" /\ d_issuer = <<65, 128>>

\* the intersection loop is over with nothing in the running set
EmptyAtEnd ==
  /\ pc = "intersect" /\ j > Len(domains)
  /\ IF issuers_intersection = None THEN TRUE ELSE issuers_intersection[1] = {}

\* C18: a call that returns returns at least one identifier; a call with no
\* domain at all makes no query and can end only with No common issuers
\* found; and whenever the intersection loop ends with nothing in the
\* running set the call raises that error and cannot return.
C18_NeverEmptyResult ==
  /\ pc = "returned" =>
       /\ result # <<>>
       /\ issuers_intersection # None
       /\ issuers_intersection[1] # {}
  /\ (started = 0 /\ todo = <<>>) =>
       /\ pc \in {"loop", "intersect", "raised"}
       /\ queried = <<>> /\ domains = <<>>
       /\ pc = "loop" => ENABLED DomainsDone
       /\ pc = "raised" => error = ErrNoCommon
  /\ EmptyAtEnd => (ENABLED NoCommonIssuers) /\ ~(ENABLED Return)

C18_Witness == pc = "raised" /\ started = 0 /\ error = ErrNoCommon

C18_DisjointWitness ==
  /\ pc = "raised" /\ error = ErrNoCommon
  /\ Len(domains) = 2 /\ domains[1] # <<>> /\ domains[2] # <<>>

\* the sub-list the tag rule picks from the domain's records
RuleChosen ==
  IF sel_wild /\ TaggedValues(<<"issuewild">>) # <<>>
  THEN TaggedValues(<<"issuewild">>)
  ELSE TaggedValues(<<"issue">>)

AllOptOut(set) == set # <<>> /\ \A i \in DOMAIN set : ~Allowed(set[i])

\* C19: when the sub-list picked by the tag rule is non-empty and every
\* record of it opts out of discovery, the selection raises nothing, keeps
\* that sub-list (a wildcard domain's issuewild records, not its issue
\* records) and ends with an empty issuer list.
C19_EmptinessBeforeFilter ==
  (sel_pc \in {"chosen", "emitted", "raised"} /\ AllOptOut(RuleChosen)) =>
    /\ sel_pc # "raised" /\ sel_error = ""
    /\ relevant_set = RuleChosen
    /\ sel_pc = "chosen" => ENABLED SelEmit
    /\ sel_pc = "emitted" => issuers = <<>>

C19_Witness ==
  /\ sel_pc = "emitted" /\ sel_wild /\ issuers = <<>>
  /\ AllOptOut(TaggedValues(<<"issuewild">>))
  /\ TaggedValues(<<"issue">>) # <<>>
  /\ Allowed(TaggedValues(<<"issue">>)[1])

\* an issuer list that is empty leaves nothing in common: the call does not
\* return
C19_EmptyListForcesNoCommon ==
  (\E i \in DOMAIN domains : domains[i] = <<>>) => pc # "returned"

C19_NoCommonWitness ==
  /\ pc = "raised" /\ error = ErrNoCommon /\ Len(domains) = 2
  /\ domains[1] # <<>> /\ domains[2] = <<>>

\* the record has a priority value that is not an integer >= 1
BadPriority(r) == HasPriorityValue(r) /\ PriorityText(r) \notin GoodPriorities

\* every record of the domain, parsed, whatever its tag
AllParsed == [i \in DOMAIN sel_rr |-> parse(sel_rr[i].value)]

\* C20: "Invalid priority" is raised only when a record of the sub-list
\* picked by the tag rule may be discovered and has a bad priority; a bad
\* priority on any other record raises nothing.
C20_PriorityOnlyOnEmitted ==
  sel_error = ErrPriority =>
    \E i \in DOMAIN RuleChosen :
      Allowed(RuleChosen[i]) /\ BadPriority(RuleChosen[i])

C20_Witness ==
  /\ sel_pc = "emitted" /\ ~sel_wild /\ Len(issuers) = 1
  /\ \E i \in DOMAIN sel_rr :
       sel_rr[i].tag = <<"issuewild">> /\ BadPriority(AllParsed[i])
                                       /\ Allowed(AllParsed[i])

C20_DroppedWitness ==
  /\ sel_pc = "emitted"
  /\ \E i \in DOMAIN RuleChosen :
       ~Allowed(RuleChosen[i]) /\ BadPriority(RuleChosen[i])

C20_WildWitness ==
  /\ sel_pc = "emitted" /\ sel_wild /\ Len(issuers) = 1
  /\ \E i \in DOMAIN sel_rr :
       sel_rr[i].tag = <<"issue">> /\ BadPriority(AllParsed[i])
                                   /\ Allowed(AllParsed[i])
====
